---- MODULE Spec2Model ----
(***************************************************************************)
(* Model of src/resources/video.py: the Flask-RESTful resource Video       *)
(* (get / put / patch / delete over the table of VideoModel rows) and the  *)
(* Metrics resource, with the two Prometheus collectors request_counter    *)
(* and response_histogram.                                                 *)
(*                                                                         *)
(* Two specifications share the handlers' operators:                       *)
(*   Spec      one request at a time, each handler one atomic action;      *)
(*   ConcSpec  two server threads; a mutating handler is split at the      *)
(*             point where it has read the table (query) and has not yet   *)
(*             written it (db.session.commit()).                           *)
(*                                                                         *)
(* The handlers are modelled as written, with the names imported on lines  *)
(* 4-9 taken to resolve to flask_restful, Flask-SQLAlchemy and the         *)
(* Prometheus client; durations are not modelled, only which histogram     *)
(* child is observed.                                                      *)
(***************************************************************************)
EXTENDS Integers, Sequences, FiniteSets, TLC

\* ------------------------------------------------------------- bounds
\* Requests served, one after the other, under Spec.
MaxRequests == 2

Ids == {1, 2}
Names == {"a", "b"}
Views == {0, 1}
Likes == {0, 1}

Workers == {"w1", "w2"}
SeqWorker == "w1"

\* ------------------------------------------------------------- values
\* An optional request argument: <<>> when absent (None), <<v>> when present.
Opt(S) == {<<>>} \cup {<<v>> : v \in S}
Present(x) == x # <<>>

ArgSets == [name : Opt(Names), views : Opt(Views), likes : Opt(Likes)]
NoArgs == [name |-> <<>>, views |-> <<>>, likes |-> <<>>]

VideoRows == [id : Ids, name : Names, views : Views, likes : Likes]

\* The endpoint labels as the handlers spell them.
VideoEndpoint == "/video/<int:video_id>"
HistVideoEndpoint == "/video/<int:video_id}"
MetricsEndpoint == "/metrics"

\* The routes a request can be dispatched to, by (method, endpoint template).
RouteKeys ==
  {<<m, VideoEndpoint>> : m \in {"GET", "PUT", "PATCH", "DELETE"}}
    \cup {<<"GET", MetricsEndpoint>>}

NoReq == [method |-> "", endpoint |-> "", id |-> 0, args |-> NoArgs]
NoResp == [status |-> 0, body |-> <<>>]
NoPrev == <<"", 0, 0>>

VARIABLES
  rows,                \* the committed rows of the video table
  request_counter,     \* Counter http_request_total: label pair -> count
  response_histogram,  \* Histogram: label pair -> number of observations
  handled,             \* requests dispatched so far, per route
  pc,                  \* per thread: "idle", "running" (read, not written), "done"
  req,                 \* per thread: the request being (or last) handled
  loaded,              \* per thread: the ORM object the handler's query returned
  resp,                \* per thread: the response to req
  raced,               \* per thread: another thread committed a write to req's id
                       \*   after this handler's query
  conflictAtCommit,    \* per thread: a row with req's id was committed when the
                       \*   create was decided
  prev                 \* the exchange before the last one (method, id, status)

vars ==
  <<rows, request_counter, response_histogram, handled, pc, req, loaded, resp,
    raced, conflictAtCommit, prev>>

\* ------------------------------------------------------------- storage
\* VideoModel.query.filter_by(id=video_id) / VideoModel.query.get(video_id)
Lookup(rs, id) == {r \in rs : r.id = id}

\* .first(): one matching row as a 0/1-element sequence
First(S) == IF S = {} THEN <<>> ELSE <<CHOOSE r \in S : TRUE>>

\* The table's primary key: no two rows share an id.
PrimaryKeyUnique(rs) == \A r1, r2 \in rs : r1.id = r2.id => r1 = r2

\* INSERT of a row at commit; the primary key rejects a duplicate id.
InsertRow(rs, row) ==
  IF Lookup(rs, row.id) # {}
    THEN [ok |-> FALSE, rows |-> rs]
    ELSE [ok |-> TRUE, rows |-> rs \cup {row}]

\* marshal_with(resource_fields)
Marshal(v) == [id |-> v.id, name |-> v.name, views |-> v.views, likes |-> v.likes]

\* ------------------------------------------------------------- metrics
Inc(c, k) == IF k \in DOMAIN c THEN [c EXCEPT ![k] = @ + 1] ELSE c @@ (k :> 1)

\* response_histogram.labels(...).time(): the child exists from labels() on and
\* is observed when the with block is left, by return or by abort.
Observe(h, k) == IF k \in DOMAIN h THEN [h EXCEPT ![k] = @ + 1] ELSE h @@ (k :> 1)

CounterKey(method) == <<method, VideoEndpoint>>
HistogramKey(method) == <<method, HistVideoEndpoint>>

Label(h, k) == IF k \in DOMAIN h THEN h ELSE h @@ (k :> 0)

\* ------------------------------------------------------------- handlers
Abort(code, body) == [aborted |-> TRUE, resp |-> [status |-> code, body |-> body], video |-> <<>>]
Proceed(video) == [aborted |-> FALSE, resp |-> NoResp, video |-> video]

\* Variant: the missing video is reported as a bad request.
abort_400_if_video_doesnt_exist(rs, video_id) ==
  LET video == First(Lookup(rs, video_id))
  IN IF video = <<>>
       THEN Abort(400, <<"No se encontro un video con el ID", video_id>>)
       ELSE Proceed(video)

abort_if_video_doesnt_exist(rs, video_id) ==
  LET video == First(Lookup(rs, video_id))
  IN IF video = <<>>
       THEN Abort(404, <<"No se encontro un video con el ID", video_id>>)
       ELSE Proceed(video)

\* Video.get
GetHandler(rs, video_id) ==
  LET found == abort_if_video_doesnt_exist(rs, video_id)
  IN IF found.aborted THEN found.resp
     ELSE [status |-> 200, body |-> <<Marshal(found.video[1])>>]

\* video_put_args.parse_args(): the first required argument that is missing
MissingField(args) ==
  IF ~Present(args.name) THEN <<"name">>
  ELSE IF ~Present(args.views) THEN <<"views">>
  ELSE IF ~Present(args.likes) THEN <<"likes">>
  ELSE <<>>

\* Variant: no existence check before the insert.
PutBeginUnchecked(rs, video_id, args) ==
  IF MissingField(args) # <<>>
    THEN Abort(400, <<"missing">> \o MissingField(args))
  ELSE Proceed(<<>>)

\* Variant: the existence check runs before the arguments are parsed.
PutBeginExistenceFirst(rs, video_id, args) ==
  IF Lookup(rs, video_id) # {}
    THEN Abort(409, <<"Ya existe un video con el ID", video_id>>)
  ELSE IF MissingField(args) # <<>>
    THEN Abort(400, <<"missing">> \o MissingField(args))
  ELSE Proceed(<<>>)

\* Video.put up to its existence check: parse_args, then query.get
PutBegin(rs, video_id, args) ==
  IF MissingField(args) # <<>>
    THEN Abort(400, <<"missing">> \o MissingField(args))
  ELSE IF Lookup(rs, video_id) # {}
    THEN Abort(409, <<"Ya existe un video con el ID", video_id>>)
  ELSE Proceed(<<>>)

\* Variant: views and likes are stored crossed.
PutFinishCrossed(rs, video_id, args) ==
  LET video == [id |-> video_id, name |-> args.name[1],
                views |-> args.likes[1], likes |-> args.views[1]]
      ins == InsertRow(rs, video)
  IN IF ins.ok
       THEN [rows |-> ins.rows, resp |-> [status |-> 201, body |-> <<Marshal(video)>>]]
       ELSE [rows |-> rs, resp |-> [status |-> 500, body |-> <<"IntegrityError", video_id>>]]

\* Video.put from VideoModel(...) on: add, commit, marshal
PutFinish(rs, video_id, args) ==
  LET video == [id |-> video_id, name |-> args.name[1],
                views |-> args.views[1], likes |-> args.likes[1]]
      ins == InsertRow(rs, video)
  IN IF ins.ok
       THEN [rows |-> ins.rows, resp |-> [status |-> 201, body |-> <<Marshal(video)>>]]
       ELSE [rows |-> rs, resp |-> [status |-> 500, body |-> <<"IntegrityError", video_id>>]]

\* Variant: an absent argument overwrites the field with a default.
AssignDefaults(video, args) ==
  [id |-> video.id,
   name |-> IF args.name # <<>> THEN args.name[1] ELSE "a",
   views |-> IF args.views # <<>> THEN args.views[1] ELSE 0,
   likes |-> IF args.likes # <<>> THEN args.likes[1] ELSE 0]

\* Variant: the likes argument is never assigned.
AssignWithoutLikes(video, args) ==
  [id |-> video.id,
   name |-> IF args.name # <<>> THEN args.name[1] ELSE video.name,
   views |-> IF args.views # <<>> THEN args.views[1] ELSE video.views,
   likes |-> video.likes]

\* Video.patch: the three guarded assignments to the loaded object
Assign(video, args) ==
  [id |-> video.id,
   name |-> IF args.name # <<>> THEN args.name[1] ELSE video.name,
   views |-> IF args.views # <<>> THEN args.views[1] ELSE video.views,
   likes |-> IF args.likes # <<>> THEN args.likes[1] ELSE video.likes]

\* db.session.commit() of a modified object: the unit of work writes the
\* attributes whose value differs from the loaded one, to the row of that
\* primary key; it raises when the row is gone.  Nothing is written when no
\* attribute differs.
FlushUpdate(rs, video, obj) ==
  LET cur == Lookup(rs, video.id)
      changed == {f \in DOMAIN video : obj[f] # video[f]}
  IN IF changed = {} THEN [ok |-> TRUE, rows |-> rs]
     ELSE IF cur = {} THEN [ok |-> FALSE, rows |-> rs]
     ELSE [ok |-> TRUE,
           rows |-> (rs \ cur) \cup
                      {[f \in DOMAIN r |-> IF f \in changed THEN obj[f] ELSE r[f]] : r \in cur}]

\* Video.patch from the assignments on: commit, then marshal, which reloads
\* the object the commit expired.
PatchFinish(rs, video_id, args, video) ==
  LET flush == FlushUpdate(rs, video, Assign(video, args))
      now == First(Lookup(flush.rows, video_id))
  IN IF ~flush.ok
       THEN [rows |-> rs, resp |-> [status |-> 500, body |-> <<"StaleDataError", video_id>>]]
     ELSE IF now = <<>>
       THEN [rows |-> flush.rows,
             resp |-> [status |-> 500, body |-> <<"ObjectDeletedError", video_id>>]]
     ELSE [rows |-> flush.rows, resp |-> [status |-> 200, body |-> <<Marshal(now[1])>>]]

\* Variant: the delete is answered and never committed.
DeleteFinishUncommitted(rs, video_id) ==
  [rows |-> rs,
   resp |-> [status |-> 204, body |-> <<"Video eliminado", video_id>>]]

\* Video.delete from db.session.delete on: DELETE by primary key, commit
DeleteFinish(rs, video_id) ==
  [rows |-> rs \ Lookup(rs, video_id),
   resp |-> [status |-> 204, body |-> <<"Video eliminado", video_id>>]]

\* ------------------------------------------------------------- state
\* The table when the process starts: for each id, no row or one row.
SeedRows == {[id |-> i, name |-> "a", views |-> 0, likes |-> 0] : i \in Ids}

Init ==
  /\ rows \in SUBSET SeedRows
  /\ request_counter = <<>>
  /\ response_histogram = <<>>
  /\ handled = [k \in RouteKeys |-> 0]
  /\ pc = [w \in Workers |-> "idle"]
  /\ req = [w \in Workers |-> NoReq]
  /\ loaded = [w \in Workers |-> <<>>]
  /\ resp = [w \in Workers |-> NoResp]
  /\ raced = [w \in Workers |-> FALSE]
  /\ conflictAtCommit = [w \in Workers |-> FALSE]
  /\ prev = NoPrev

Request(method, endpoint, id, args) ==
  [method |-> method, endpoint |-> endpoint, id |-> id, args |-> args]

\* The number of requests dispatched so far.
Dispatched ==
  handled[<<"GET", VideoEndpoint>>] + handled[<<"PUT", VideoEndpoint>>]
    + handled[<<"PATCH", VideoEndpoint>>] + handled[<<"DELETE", VideoEndpoint>>]
    + handled[<<"GET", MetricsEndpoint>>]

\* Thread w takes request r: the dispatcher's bookkeeping.
Take(w, r) ==
  /\ handled' = [handled EXCEPT ![<<r.method, r.endpoint>>] = @ + 1]
  /\ req' = [req EXCEPT ![w] = r]
  /\ prev' = IF pc[w] = "done"
               THEN <<req[w].method, req[w].id, resp[w].status>> ELSE NoPrev

\* The request of thread w ends with response rsp.
Respond(w, rsp) ==
  /\ pc' = [pc EXCEPT ![w] = "done"]
  /\ resp' = [resp EXCEPT ![w] = rsp]
  /\ loaded' = [loaded EXCEPT ![w] = <<>>]

\* The handler of thread w has read the table and goes on to write it.
Continue(w, video) ==
  /\ pc' = [pc EXCEPT ![w] = "running"]
  /\ loaded' = [loaded EXCEPT ![w] = video]
  /\ UNCHANGED resp

\* A commit by w that changed the table at id: every other thread that has
\* read that id and not yet written holds a stale view of it.
MarkRaced(w, id, changed) ==
  [v \in Workers |->
     IF v = w THEN raced[w]
     ELSE raced[v] \/ (changed /\ pc[v] = "running" /\ req[v].id = id)]

Fresh(w) ==
  /\ raced' = [raced EXCEPT ![w] = FALSE]
  /\ conflictAtCommit' = [conflictAtCommit EXCEPT ![w] = FALSE]

\* ------------------------------------------------------------- whole handlers
DoGet(w, video_id) ==
  /\ Take(w, Request("GET", VideoEndpoint, video_id, NoArgs))
  /\ Respond(w, GetHandler(rows, video_id))
  /\ Fresh(w)
  /\ UNCHANGED <<rows, request_counter, response_histogram>>

DoPut(w, video_id, args) ==
  LET begin == PutBegin(rows, video_id, args)
      finish == PutFinish(rows, video_id, args)
  IN /\ Take(w, Request("PUT", VideoEndpoint, video_id, args))
     /\ request_counter' = Inc(request_counter, CounterKey("PUT"))
     /\ response_histogram' =
          Observe(Label(response_histogram, HistogramKey("PUT")), HistogramKey("PUT"))
     /\ rows' = IF begin.aborted THEN rows ELSE finish.rows
     /\ Respond(w, IF begin.aborted THEN begin.resp ELSE finish.resp)
     /\ raced' = [raced EXCEPT ![w] = FALSE]
     /\ conflictAtCommit' =
          [conflictAtCommit EXCEPT
             ![w] = MissingField(args) = <<>> /\ Lookup(rows, video_id) # {}]

DoPatch(w, video_id, args) ==
  LET begin == abort_if_video_doesnt_exist(rows, video_id)
      finish == PatchFinish(rows, video_id, args, begin.video[1])
  IN /\ Take(w, Request("PATCH", VideoEndpoint, video_id, args))
     /\ request_counter' = Inc(request_counter, CounterKey("PATCH"))
     /\ response_histogram' =
          Observe(Label(response_histogram, HistogramKey("PATCH")), HistogramKey("PATCH"))
     /\ rows' = IF begin.aborted THEN rows ELSE finish.rows
     /\ Respond(w, IF begin.aborted THEN begin.resp ELSE finish.resp)
     /\ Fresh(w)

DoDelete(w, video_id) ==
  LET begin == abort_if_video_doesnt_exist(rows, video_id)
      finish == DeleteFinish(rows, video_id)
  IN /\ Take(w, Request("DELETE", VideoEndpoint, video_id, NoArgs))
     /\ request_counter' = Inc(request_counter, CounterKey("DELETE"))
     /\ response_histogram' =
          Observe(Label(response_histogram, HistogramKey("DELETE")), HistogramKey("DELETE"))
     /\ rows' = IF begin.aborted THEN rows ELSE finish.rows
     /\ Respond(w, IF begin.aborted THEN begin.resp ELSE finish.resp)
     /\ Fresh(w)

\* Metrics.get: generate_latest() runs inside the timer, after the increment.
DoMetrics(w) ==
  LET key == <<"GET", MetricsEndpoint>>
  IN /\ Take(w, Request("GET", MetricsEndpoint, 0, NoArgs))
     /\ request_counter' = Inc(request_counter, key)
     /\ response_histogram' = Observe(Label(response_histogram, key), key)
     /\ Respond(w, [status |-> 200,
                    body |-> <<request_counter', Label(response_histogram, key)>>])
     /\ Fresh(w)
     /\ UNCHANGED rows

\* ------------------------------------------------------------- one request at a time
Ready == pc[SeqWorker] \in {"idle", "done"} /\ Dispatched < MaxRequests

Get(video_id) == Ready /\ DoGet(SeqWorker, video_id)
Put(video_id, args) == Ready /\ DoPut(SeqWorker, video_id, args)
Patch(video_id, args) == Ready /\ DoPatch(SeqWorker, video_id, args)
Delete(video_id) == Ready /\ DoDelete(SeqWorker, video_id)
Metrics == Ready /\ DoMetrics(SeqWorker)

Next ==
  \/ \E id \in Ids : Get(id)
  \/ \E id \in Ids, args \in ArgSets : Put(id, args)
  \/ \E id \in Ids, args \in ArgSets : Patch(id, args)
  \/ \E id \in Ids : Delete(id)
  \/ Metrics

Spec == Init /\ [][Next]_vars

\* ------------------------------------------------------------- two threads
\* Each thread serves one request.  A mutating handler takes two steps: up to
\* and including its query, then from there to its response.
ThreadGet(w, video_id) == pc[w] = "idle" /\ DoGet(w, video_id)
ThreadMetrics(w) == pc[w] = "idle" /\ DoMetrics(w)

BeginPut(w, video_id, args) ==
  LET begin == PutBegin(rows, video_id, args)
  IN /\ pc[w] = "idle"
     /\ Take(w, Request("PUT", VideoEndpoint, video_id, args))
     /\ request_counter' = Inc(request_counter, CounterKey("PUT"))
     /\ response_histogram' =
          IF begin.aborted
            THEN Observe(Label(response_histogram, HistogramKey("PUT")), HistogramKey("PUT"))
            ELSE Label(response_histogram, HistogramKey("PUT"))
     /\ IF begin.aborted THEN Respond(w, begin.resp) ELSE Continue(w, begin.video)
     /\ raced' = [raced EXCEPT ![w] = FALSE]
     /\ conflictAtCommit' =
          [conflictAtCommit EXCEPT
             ![w] = MissingField(args) = <<>> /\ Lookup(rows, video_id) # {}]
     /\ UNCHANGED rows

CommitPut(w) ==
  LET finish == PutFinish(rows, req[w].id, req[w].args)
  IN /\ pc[w] = "running"
     /\ req[w].method = "PUT"
     /\ rows' = finish.rows
     /\ response_histogram' = Observe(response_histogram, HistogramKey("PUT"))
     /\ Respond(w, finish.resp)
     /\ raced' = MarkRaced(w, req[w].id, rows' # rows)
     /\ conflictAtCommit' = [conflictAtCommit EXCEPT ![w] = Lookup(rows, req[w].id) # {}]
     /\ UNCHANGED <<request_counter, handled, req, prev>>

BeginPatch(w, video_id, args) ==
  LET begin == abort_if_video_doesnt_exist(rows, video_id)
  IN /\ pc[w] = "idle"
     /\ Take(w, Request("PATCH", VideoEndpoint, video_id, args))
     /\ request_counter' = Inc(request_counter, CounterKey("PATCH"))
     /\ response_histogram' =
          IF begin.aborted
            THEN Observe(Label(response_histogram, HistogramKey("PATCH")), HistogramKey("PATCH"))
            ELSE Label(response_histogram, HistogramKey("PATCH"))
     /\ IF begin.aborted THEN Respond(w, begin.resp) ELSE Continue(w, begin.video)
     /\ Fresh(w)
     /\ UNCHANGED rows

CommitPatch(w) ==
  LET finish == PatchFinish(rows, req[w].id, req[w].args, loaded[w][1])
  IN /\ pc[w] = "running"
     /\ req[w].method = "PATCH"
     /\ rows' = finish.rows
     /\ response_histogram' = Observe(response_histogram, HistogramKey("PATCH"))
     /\ Respond(w, finish.resp)
     /\ raced' = MarkRaced(w, req[w].id, rows' # rows)
     /\ UNCHANGED <<request_counter, handled, req, prev, conflictAtCommit>>

BeginDelete(w, video_id) ==
  LET begin == abort_if_video_doesnt_exist(rows, video_id)
  IN /\ pc[w] = "idle"
     /\ Take(w, Request("DELETE", VideoEndpoint, video_id, NoArgs))
     /\ request_counter' = Inc(request_counter, CounterKey("DELETE"))
     /\ response_histogram' =
          IF begin.aborted
            THEN Observe(Label(response_histogram, HistogramKey("DELETE")), HistogramKey("DELETE"))
            ELSE Label(response_histogram, HistogramKey("DELETE"))
     /\ IF begin.aborted THEN Respond(w, begin.resp) ELSE Continue(w, begin.video)
     /\ Fresh(w)
     /\ UNCHANGED rows

CommitDelete(w) ==
  LET finish == DeleteFinish(rows, req[w].id)
  IN /\ pc[w] = "running"
     /\ req[w].method = "DELETE"
     /\ rows' = finish.rows
     /\ response_histogram' = Observe(response_histogram, HistogramKey("DELETE"))
     /\ Respond(w, finish.resp)
     /\ raced' = MarkRaced(w, req[w].id, rows' # rows)
     /\ UNCHANGED <<request_counter, handled, req, prev, conflictAtCommit>>

ConcNext ==
  \E w \in Workers :
    \/ \E id \in Ids : ThreadGet(w, id)
    \/ ThreadMetrics(w)
    \/ \E id \in Ids, args \in ArgSets : BeginPut(w, id, args)
    \/ CommitPut(w)
    \/ \E id \in Ids, args \in ArgSets : BeginPatch(w, id, args)
    \/ CommitPatch(w)
    \/ \E id \in Ids : BeginDelete(w, id)
    \/ CommitDelete(w)

ConcSpec == Init /\ [][ConcNext]_vars

\* ------------------------------------------------------------- properties
\* Under Spec: this step served one request, now held in req'[SeqWorker].
Served == handled' # handled
Rq == req'[SeqWorker]
Rs == resp'[SeqWorker]
OnVideo(method) == Served /\ Rq.method = method /\ Rq.endpoint = VideoEndpoint
Complete(args) == Present(args.name) /\ Present(args.views) /\ Present(args.likes)

\* The record a create with these arguments is to produce.
Created(id, args) ==
  [id |-> id, name |-> args.name[1], views |-> args.views[1], likes |-> args.likes[1]]

\* The record a partial update of old with these arguments is to produce.
Merged(old, args) ==
  [id |-> old.id,
   name |-> IF Present(args.name) THEN args.name[1] ELSE old.name,
   views |-> IF Present(args.views) THEN args.views[1] ELSE old.views,
   likes |-> IF Present(args.likes) THEN args.likes[1] ELSE old.likes]

\* C1 (as stated): every PUT for an id that already has a record answers 409
\* and leaves the table unchanged.
C1_ExistingIdAlwaysConflict ==
  [][(OnVideo("PUT") /\ Lookup(rows, Rq.id) # {})
       => (Rs.status = 409 /\ rows' = rows)]_vars

\* C1 (amended): a PUT that carries all of name, views and likes, for an id
\* that already has a record, answers 409 with a message naming the id and
\* leaves the table unchanged.
C1_CompleteCreateOnExistingIdConflicts ==
  [][(OnVideo("PUT") /\ Complete(Rq.args) /\ Lookup(rows, Rq.id) # {})
       => (Rs.status = 409 /\ Rs.body[2] = Rq.id /\ rows' = rows)]_vars

C1_Witness ==
  /\ pc[SeqWorker] = "done"
  /\ req[SeqWorker].method = "PUT"
  /\ Complete(req[SeqWorker].args)
  /\ resp[SeqWorker].status = 409
  /\ Lookup(rows, req[SeqWorker].id) # {}
  /\ Created(req[SeqWorker].id, req[SeqWorker].args) \notin rows

\* C2: a create of an absent id with all three fields answers 201 with the
\* record of its arguments, and the fetch of that id served next answers 200
\* with exactly that record.
C2_CreateThenFetch ==
  [][/\ (OnVideo("PUT") /\ Complete(Rq.args) /\ Lookup(rows, Rq.id) = {})
          => Rs = [status |-> 201, body |-> <<Created(Rq.id, Rq.args)>>]
     /\ (/\ OnVideo("GET")
         /\ pc[SeqWorker] = "done"
         /\ req[SeqWorker].method = "PUT"
         /\ req[SeqWorker].id = Rq.id
         /\ resp[SeqWorker].status = 201)
          => Rs = [status |-> 200,
                   body |-> <<Created(Rq.id, req[SeqWorker].args)>>]]_vars

C2_Witness ==
  /\ pc[SeqWorker] = "done"
  /\ req[SeqWorker].method = "GET"
  /\ req[SeqWorker].endpoint = VideoEndpoint
  /\ resp[SeqWorker].status = 200
  /\ prev = <<"PUT", req[SeqWorker].id, 201>>
  /\ resp[SeqWorker].body[1].name = "b"
  /\ resp[SeqWorker].body[1].views # resp[SeqWorker].body[1].likes

\* C3: a PATCH of an existing record answers 200 with the merged record: each
\* field present in the request takes the request's value, each absent field
\* and the id keep their value, and no other row changes.
C3_PartialUpdateMerges ==
  [][(OnVideo("PATCH") /\ Lookup(rows, Rq.id) # {})
       => \E old \in Lookup(rows, Rq.id) :
            /\ Rs = [status |-> 200, body |-> <<Merged(old, Rq.args)>>]
            /\ rows' = (rows \ {old}) \cup {Merged(old, Rq.args)}
            /\ {r \in rows' : r.id # Rq.id} = {r \in rows : r.id # Rq.id}]_vars

C3_Witness ==
  /\ pc[SeqWorker] = "done"
  /\ req[SeqWorker].method = "PATCH"
  /\ resp[SeqWorker].status = 200
  /\ ~Present(req[SeqWorker].args.name)
  /\ req[SeqWorker].args.views = <<1>>
  /\ ~Present(req[SeqWorker].args.likes)
  /\ prev[1] = "PUT" /\ prev[2] = req[SeqWorker].id /\ prev[3] = 201
  /\ resp[SeqWorker].body[1].name = "b"
  /\ resp[SeqWorker].body[1].views = 1
  /\ \E r \in rows : r.id # req[SeqWorker].id

C5_AbsentIdNotFound ==
  [][(/\ Served
      /\ Rq.endpoint = VideoEndpoint
      /\ Rq.method \in {"GET", "PATCH", "DELETE"}
      /\ Lookup(rows, Rq.id) = {})
       => (Rs.status = 404 /\ Rs.body[2] = Rq.id /\ rows' = rows)]_vars

C5_Witness ==
  /\ pc[SeqWorker] = "done"
  /\ req[SeqWorker].method = "PATCH"
  /\ Present(req[SeqWorker].args.likes)
  /\ resp[SeqWorker].status = 404
  /\ prev[1] = "DELETE" /\ prev[2] = req[SeqWorker].id /\ prev[3] = 204
  /\ rows # {}

\* C6 (as stated): after any sequence of requests, the counter entry of every
\* (method, endpoint template) equals the number of requests of that method
\* and endpoint handled so far.
C6_CounterCountsEveryRequest ==
  /\ DOMAIN request_counter \subseteq RouteKeys
  /\ \A k \in RouteKeys :
       handled[k] = IF k \in DOMAIN request_counter THEN request_counter[k] ELSE 0

\* C7 (as stated): the label pairs present in the histogram are those present
\* in the counter.
C7_HistogramKeysAreCounterKeys ==
  DOMAIN response_histogram = DOMAIN request_counter

\* C8 (as stated): under any interleaving the table never holds two rows of
\* one id, a create that finds its id committed when it commits answers 409,
\* and of two creates of one id at most one answers 201 and then the other
\* answers 409.
C8_ConcurrentCreateConflicts ==
  /\ PrimaryKeyUnique(rows)
  /\ \A w \in Workers :
       (/\ pc[w] = "done"
        /\ req[w].method = "PUT"
        /\ Complete(req[w].args)
        /\ conflictAtCommit[w])
         => resp[w].status = 409
  /\ \A w, v \in Workers :
       (/\ w # v
        /\ pc[w] = "done" /\ pc[v] = "done"
        /\ req[w].method = "PUT" /\ req[v].method = "PUT"
        /\ Complete(req[w].args) /\ Complete(req[v].args)
        /\ req[w].id = req[v].id
        /\ resp[w].status = 201)
         => resp[v].status = 409

\* A PATCH response of 200 carries every value its request gave.
Reflects(w) ==
  \A f \in {"name", "views", "likes"} :
    Present(req[w].args[f]) => resp[w].body[1][f] = req[w].args[f][1]

C10_MissingFieldRejectedFirst ==
  [][(OnVideo("PUT") /\ ~Complete(Rq.args))
       => (/\ Rs.status = 400
           /\ ~Present(Rq.args[Rs.body[2]])
           /\ rows' = rows)]_vars

C10_Witness ==
  /\ pc[SeqWorker] = "done"
  /\ req[SeqWorker].method = "PUT"
  /\ Present(req[SeqWorker].args.name)
  /\ ~Present(req[SeqWorker].args.likes)
  /\ resp[SeqWorker].status = 400
  /\ Lookup(rows, req[SeqWorker].id) # {}

====
